---- MODULE Spec2Model ----
(***************************************************************************)
(* GenGraphGram: src/gengraphgram/generator.py.                            *)
(*                                                                         *)
(* Rule compiles a parse tree (lhs product, rhs products) into networkx    *)
(* graphs; Generator scans its rules for the ones useable on a host graph  *)
(* and drives the generate() loop.                                         *)
(*                                                                         *)
(* A parse tree is modelled by its children: an id is <<WORD>> or          *)
(* <<WORD, INT>>, a path a sequence of ids, a product a sequence of paths, *)
(* a rule text [lhs |-> product, rhs |-> <<product, ...>>].                *)
(*                                                                         *)
(* A networkx Graph is the record                                          *)
(*   nodes       : sequence of [name, type] in insertion order (the node   *)
(*                 dict with its "type" attribute),                        *)
(*   edges       : set of {u, v} (undirected; {u} is a self-loop),         *)
(*   types       : graph.graph["types"], a set,                            *)
(*   type_counts : graph.graph["type_counts"], a defaultdict(int), as the  *)
(*                 sequence of <<key, value>> in insertion order.          *)
(***************************************************************************)
EXTENDS Integers, Sequences, FiniteSets, TLC

VARIABLES
    text,           \* Rule.__init__: the parse tree being compiled
    rule,           \* Rule.__init__: the Rule under construction (_lhs, _rhs)
    rules,          \* Generator._rules
    graph,          \* generate(): the host graph
    useable_rules,  \* generate(): the list _get_useable_rules returned (rule positions)
    applied,        \* generate(): position of the rule handed to _apply_rule, 0 if none
    pc,             \* where the running call stands
    error,          \* the exception that left the call, "none" if none
    supplied,       \* Generator.__init__: the list handed to the constructor
    aliases,        \* generate(): positions of the rules whose lhs object graph is bound to
    _type_buckets,  \* Generator._type_buckets
    registered      \* history: the nodes added to the buckets and not removed since

vars == <<text, rule, rules, graph, useable_rules, applied, pc, error,
          supplied, aliases, _type_buckets, registered>>

----------------------------------------------------------------------------
(* Bounds of the inputs *)

\* ids in one rule text, both sides together
MaxIds == 5
\* rules of one Generator
MaxRules == 2
\* the step bounds a caller may ask for
MaxSteps == 3

\* the nodes of one type handed to the type buckets
MaxBucketNodes == 2

TypeNames == {"S", "A", "B"}

Ids == {<<"A">>, <<"A", "1">>, <<"B">>}

\* The parse tree of the rule text ids[1] seps[1] ids[2] ... ids[n], read
\* left to right: "->" extends the path, "," closes it, "|" closes the
\* product, "==>" closes the lhs.
RECURSIVE ParseFrom(_, _, _, _, _, _, _)
ParseFrom(ids, seps, k, path, product, lhs, rhs) ==
    IF k > Len(seps)
    THEN [lhs |-> lhs, rhs |-> Append(rhs, Append(product, path))]
    ELSE LET id == ids[k + 1]
         IN CASE seps[k] = "->" ->
                    ParseFrom(ids, seps, k + 1, Append(path, id), product, lhs, rhs)
              [] seps[k] = "," ->
                    ParseFrom(ids, seps, k + 1, <<id>>, Append(product, path), lhs, rhs)
              [] seps[k] = "|" ->
                    ParseFrom(ids, seps, k + 1, <<id>>, <<>>, lhs,
                              Append(rhs, Append(product, path)))
              [] seps[k] = "==>" ->
                    ParseFrom(ids, seps, k + 1, <<id>>, <<>>, Append(product, path), rhs)

Parse(ids, seps) == ParseFrom(ids, seps, 1, <<ids[1]>>, <<>>, <<>>, <<>>)

\* rule := lhs "==>" rhs: one "==>", and no "|" before it
WellFormed(seps) ==
    \E p \in DOMAIN seps :
        /\ seps[p] = "==>"
        /\ \A q \in DOMAIN seps : q # p => seps[q] # "==>"
        /\ \A q \in 1..(p - 1) : seps[q] # "|"

\* the rule texts of n ids
TextsOfSize(n) ==
    {Parse(p[1], p[2]) : p \in
        [1..n -> Ids] \X {s \in [1..(n - 1) -> {"->", ",", "|", "==>"}] : WellFormed(s)}}

\* the products of n ids: the lhs of the rule texts of n + 1 ids
ProductsOfSize(n) ==
    {Parse(Append(p[1], <<"B">>), Append(p[2], "==>")).lhs : p \in
        [1..n -> Ids] \X [1..(n - 1) -> {"->", ","}]}

DefaultProduct == << << <<"B">> >> >>

----------------------------------------------------------------------------
(* defaultdict(int) and networkx.Graph *)

DictKeys(d) == {d[i][1] : i \in DOMAIN d}

\* the value stored under k, 0 when k is no key (what a read returns)
DictGet(d, k) ==
    IF k \in DictKeys(d)
    THEN d[CHOOSE i \in DOMAIN d : d[i][1] = k][2]
    ELSE 0

\* d[k]: a defaultdict read inserts the missing key with int() = 0
DictRead(d, k) == IF k \in DictKeys(d) THEN d ELSE Append(d, <<k, 0>>)

\* d[k] += n
DictAdd(d, k, n) ==
    LET r == DictRead(d, k)
    IN [i \in DOMAIN r |-> IF r[i][1] = k THEN <<k, r[i][2] + n>> ELSE r[i]]

NodeNames(g) == {g.nodes[i].name : i \in DOMAIN g.nodes}

NodeType(g, n) == g.nodes[CHOOSE i \in DOMAIN g.nodes : g.nodes[i].name = n].type

NodesOfType(g, t) == {i \in DOMAIN g.nodes : g.nodes[i].type = t}

\* Graph(types=set(), type_counts=defaultdict(int))
NewGraph == [nodes |-> <<>>, edges |-> {}, types |-> {}, type_counts |-> <<>>]

\* graph.add_node(name, type=typ), called for a name not yet in the graph
add_node(g, name, typ) ==
    [g EXCEPT !.nodes = Append(g.nodes, [name |-> name, type |-> typ])]

\* graph.add_edge(source, dest), both already nodes of the graph
add_edge(g, source, dest) == [g EXCEPT !.edges = g.edges \cup {{source, dest}}]

deepcopy(g) == g

----------------------------------------------------------------------------
(* Rule *)

_process_id_every_occurrence(ident, g) ==
    LET typ == ident[1]
        name == IF Len(ident) = 1 THEN typ ELSE typ \o ident[2]
        added == IF name \notin NodeNames(g) THEN add_node(g, name, typ) ELSE g
    IN [name |-> name,
        graph |-> [added EXCEPT !.types = added.types \cup {typ},
                                !.type_counts = DictAdd(added.type_counts, typ, 1)]]

_process_id_no_types(ident, g) ==
    LET typ == ident[1]
        name == IF Len(ident) = 1 THEN typ ELSE typ \o ident[2]
    IN [name |-> name,
        graph |-> IF name \notin NodeNames(g)
                  THEN LET added == add_node(g, name, typ)
                       IN [added EXCEPT !.type_counts = DictAdd(added.type_counts, typ, 1)]
                  ELSE g]

\* returns the name of the node and the graph as the call leaves it
_process_id(ident, g) ==
    LET typ == ident[1]
        name == IF Len(ident) = 1 THEN typ ELSE typ \o ident[2]
    IN [name |-> name,
        graph |-> IF name \notin NodeNames(g)
                  THEN LET added == add_node(g, name, typ)
                       IN [added EXCEPT !.types = added.types \cup {typ},
                                        !.type_counts = DictAdd(added.type_counts, typ, 1)]
                  ELSE g]

\* for i in range(len(path.children) - 1), i counted from 1 here
RECURSIVE PathEdges(_, _, _)
PathEdges(path, i, g) ==
    IF i > Len(path) - 1 THEN g
    ELSE LET source == _process_id(path[i], g)
             dest == _process_id(path[i + 1], source.graph)
         IN PathEdges(path, i + 1, add_edge(dest.graph, source.name, dest.name))

_process_path_skip_single(path, g) ==
    IF Len(path) = 1 THEN g ELSE PathEdges(path, 1, g)

_process_path(path, g) ==
    IF Len(path) = 1 THEN _process_id(path[1], g).graph ELSE PathEdges(path, 1, g)

RECURSIVE ProductPaths(_, _, _)
ProductPaths(product, i, g) ==
    IF i > Len(product) THEN g
    ELSE ProductPaths(product, i + 1, _process_path(product[i], g))

_process_product(product) == ProductPaths(product, 1, NewGraph)

_process_lhs(lhs) == _process_product(lhs)

_process_rhs(rhs) == [i \in DOMAIN rhs |-> _process_product(rhs[i])]

\* Rule(text): lines 140-144
RuleInit(t) == [lhs |-> _process_lhs(t.lhs), rhs |-> _process_rhs(t.rhs)]

required_types(r) == r.lhs.types

required_type_counts(r) == r.lhs.type_counts

----------------------------------------------------------------------------
(* networkx GraphMatcher(G1, G2, node_match).subgraph_is_isomorphic():     *)
(* some node-induced subgraph of G1 is isomorphic to G2, node_match        *)
(* holding on every matched pair.                                          *)

Injections(S, T) == {f \in [S -> T] : \A a, b \in S : a # b => f[a] # f[b]}

node_matcher(G1, n1, G2, n2) == NodeType(G1, n1) = NodeType(G2, n2)

subgraph_is_isomorphic(G1, G2) ==
    \E f \in Injections(NodeNames(G2), NodeNames(G1)) :
        /\ \A n \in NodeNames(G2) : node_matcher(G1, f[n], G2, n)
        /\ \A u, v \in NodeNames(G2) :
               ({u, v} \in G2.edges) <=> ({f[u], f[v]} \in G1.edges)

----------------------------------------------------------------------------
(* Generator *)

_has_required_types_skipped(r, types) == TRUE

_has_required_types(r, types) == r.lhs.types \subseteq types

NotEnoughLe(have, count) == have <= count

\* type_counts[typ] < count
NotEnough(have, count) == have < count

\* for typ, count in rule.required_type_counts.items(); the read of
\* type_counts[typ] may insert typ. Returns the result and the dict as left.
RECURSIVE TypeCountsLoop(_, _, _)
TypeCountsLoop(items, i, type_counts) ==
    IF i > Len(items) THEN [result |-> TRUE, type_counts |-> type_counts]
    ELSE LET typ == items[i][1]
             count == items[i][2]
             read == DictRead(type_counts, typ)
         IN IF NotEnough(DictGet(read, typ), count)
            THEN [result |-> FALSE, type_counts |-> read]
            ELSE TypeCountsLoop(items, i + 1, read)

_has_required_type_counts(r, type_counts) ==
    TypeCountsLoop(required_type_counts(r), 1, type_counts)

_has_required_connections(r, g) == subgraph_is_isomorphic(g, r.lhs)

\* for rule in self._rules; the list holds the rules by position
RECURSIVE UseableLoop(_, _, _, _)
UseableLoop(rs, i, g, useable) ==
    IF i > Len(rs) THEN [useable_rules |-> useable, graph |-> g]
    ELSE IF ~_has_required_types(rs[i], g.types)
         THEN UseableLoop(rs, i + 1, g, useable)
         ELSE LET counts == _has_required_type_counts(rs[i], g.type_counts)
                  h == [g EXCEPT !.type_counts = counts.type_counts]
              IN IF ~counts.result
                 THEN UseableLoop(rs, i + 1, h, useable)
                 ELSE IF ~_has_required_connections(rs[i], h)
                      THEN UseableLoop(rs, i + 1, h, useable)
                      ELSE UseableLoop(rs, i + 1, h, Append(useable, i))

_get_useable_rules(rs, g) == UseableLoop(rs, 1, g, <<>>)

\* self._rules[0] raises IndexError on an empty list: the caller guards
_make_starting_graph_last(rs) == deepcopy(rs[Len(rs)].lhs)

_make_starting_graph_empty(rs) == NewGraph

_make_starting_graph(rs) == deepcopy(rs[1].lhs)

SharedWithFirstRule(rs) == {1}

\* the rules whose lhs is the very object _make_starting_graph returns:
\* copy.deepcopy builds a new object, one no rule holds
SharedWithRules(rs) == {}

\* a write to the graph object, as seen through the rules that hold it
StoreThrough(rs, held, g) ==
    [i \in DOMAIN rs |-> IF i \in held THEN [rs[i] EXCEPT !.lhs = g] ELSE rs[i]]

\* _type_buckets is the function from its keys to their sets of nodes
BucketGet(buckets, typ) == IF typ \in DOMAIN buckets THEN buckets[typ] ELSE {}

\* defaultdict.__getitem__: a missing key is inserted with set()
BucketRead(buckets, typ) ==
    IF typ \in DOMAIN buckets
    THEN buckets
    ELSE [t \in DOMAIN buckets \cup {typ} |-> IF t = typ THEN {} ELSE buckets[t]]

_add_to_type_buckets(buckets, node) ==
    [BucketRead(buckets, node.typ) EXCEPT ![node.typ] = @ \cup {node}]

_remove_from_type_buckets_del(buckets, node) ==
    [t \in DOMAIN buckets \ {node.typ} |-> buckets[t]]

_remove_from_type_buckets(buckets, node) ==
    [BucketRead(buckets, node.typ) EXCEPT ![node.typ] = @ \ {node}]

RECURSIVE TypeInfoLoop(_, _, _, _)
TypeInfoLoop(nodes, i, types, type_counts) ==
    IF i > Len(nodes) THEN [types |-> types, type_counts |-> type_counts]
    ELSE TypeInfoLoop(nodes, i + 1, types \cup {nodes[i].type},
                      DictAdd(type_counts, nodes[i].type, 1))

_update_type_info(g) ==
    LET info == TypeInfoLoop(g.nodes, 1, {}, <<>>)
    IN [g EXCEPT !.types = info.types, !.type_counts = info.type_counts]

\* updates the type info, then raises NotImplementedError: no rewrite is done
_apply_rule(r, g) == [graph |-> _update_type_info(g), raised |-> "NotImplementedError"]

----------------------------------------------------------------------------
(* States *)

\* a Python object handed to the constructor: its class and, for a Rule, the rule
Object(cls, r) == [cls |-> cls, rule |-> r]

isinstance(o, cls) == o.cls = cls

AllNotRule(rs) == \A i \in DOMAIN rs : ~isinstance(rs[i], "Rule")

\* any(not isinstance(rule, Rule) for rule in rules)
AnyNotRule(rs) == \E i \in DOMAIN rs : ~isinstance(rs[i], "Rule")

\* defaultdict(lambda: set()), no key yet
NoBuckets == [t \in {} |-> {}]

NoText == [lhs |-> <<>>, rhs |-> <<>>]

NoRule == [lhs |-> NewGraph, rhs |-> <<>>]

\* the local name graph before line 103 binds it
Unbound == NewGraph

\* the grammars generate() is run on
TextSAB == [lhs |-> << << <<"S">> >> >>, rhs |-> << << << <<"A">>, <<"B">> >> >> >>]

TextAAA == [lhs |-> << << <<"A">> >> >>, rhs |-> << << << <<"A">>, <<"A">> >> >> >>]

TextAlt == [lhs |-> << << <<"A">> >> >>,
            rhs |-> << << << <<"B">> >> >>, << << <<"A", "1">> >> >> >>]

TextEdge == [lhs |-> << << <<"A">>, <<"A", "1">> >> >>, rhs |-> <<DefaultProduct>>]

TextPair == [lhs |-> << << <<"A">> >>, << <<"A", "1">> >> >>, rhs |-> <<DefaultProduct>>]

TextChain == [lhs |-> << << <<"A">>, <<"B">> >>, << <<"B">>, <<"B", "1">> >> >>,
              rhs |-> << << << <<"A">> >> >> >>]

TextLoop == [lhs |-> << << <<"A">>, <<"A">> >> >>, rhs |-> <<DefaultProduct>>]

GrammarTexts == {TextSAB, TextAAA, TextAlt, TextEdge, TextPair, TextChain, TextLoop}

GrammarRules == {RuleInit(t) : t \in GrammarTexts}

Grammars == UNION {[1..k -> GrammarRules] : k \in 0..MaxRules}

\* the graphs of the products a rule text of at most MaxIds ids has as lhs
CompiledGraphs ==
    UNION {{_process_product(p) : p \in ProductsOfSize(n)} : n \in 1..(MaxIds - 1)}

----------------------------------------------------------------------------
(* Rule.__init__ *)

InitCompile ==
    /\ \E n \in 2..MaxIds : text \in TextsOfSize(n)
    /\ rule = NoRule
    /\ rules = <<>>
    /\ graph = Unbound
    /\ useable_rules = <<>>
    /\ applied = 0
    /\ pc = "parsed"
    /\ error = "none"
    /\ supplied = <<>>
    /\ aliases = {}
    /\ _type_buckets = NoBuckets
    /\ registered = {}

ProcessLhs ==
    /\ pc = "parsed"
    /\ rule' = [rule EXCEPT !.lhs = _process_lhs(text.lhs)]
    /\ pc' = "lhs"
    /\ UNCHANGED <<text, rules, graph, useable_rules, applied, error>>
    /\ UNCHANGED <<supplied, aliases, _type_buckets, registered>>

ProcessRhs ==
    /\ pc = "lhs"
    /\ rule' = [rule EXCEPT !.rhs = _process_rhs(text.rhs)]
    /\ pc' = "compiled"
    /\ UNCHANGED <<text, rules, graph, useable_rules, applied, error>>
    /\ UNCHANGED <<supplied, aliases, _type_buckets, registered>>

NextCompile == ProcessLhs \/ ProcessRhs

SpecCompile == InitCompile /\ [][NextCompile]_vars

----------------------------------------------------------------------------
(* Generator.generate *)

Init ==
    /\ text = NoText
    /\ rule = NoRule
    /\ rules \in Grammars
    /\ graph = Unbound
    /\ useable_rules = <<>>
    /\ applied = 0
    /\ pc = "ready"
    /\ error = "none"
    /\ supplied = [i \in DOMAIN rules |-> Object("Rule", rules[i])]
    /\ aliases = {}
    /\ _type_buckets = NoBuckets
    /\ registered = {}

\* line 103
MakeStartingGraph ==
    /\ pc = "ready"
    /\ IF Len(rules) = 0
       THEN /\ error' = "IndexError"
            /\ pc' = "done"
            /\ UNCHANGED graph
            /\ UNCHANGED aliases
       ELSE /\ graph' = _make_starting_graph(rules)
            /\ aliases' = SharedWithRules(rules)
            /\ pc' = "scan"
            /\ UNCHANGED error
    /\ UNCHANGED <<text, rule, rules, useable_rules, applied>>
    /\ UNCHANGED <<supplied, _type_buckets, registered>>

\* lines 105 and 110
GetUseableRules ==
    /\ pc = "scan"
    /\ LET r == _get_useable_rules(rules, graph)
       IN /\ useable_rules' = r.useable_rules
          /\ graph' = r.graph
          /\ rules' = StoreThrough(rules, aliases, r.graph)
    /\ pc' = "while"
    /\ UNCHANGED <<text, rule, applied, error>>
    /\ UNCHANGED <<supplied, aliases, _type_buckets, registered>>

\* lines 106-111: _apply_rule raises, and so does the exit of the loop
LoopStep ==
    /\ pc = "while"
    /\ IF Len(useable_rules) > 0
       THEN \E k \in DOMAIN useable_rules :
                LET r == _apply_rule(rules[useable_rules[k]], graph)
                IN /\ applied' = useable_rules[k]
                   /\ graph' = r.graph
                   /\ rules' = StoreThrough(rules, aliases, r.graph)
                   /\ error' = r.raised
       ELSE /\ error' = "NotImplementedError"
            /\ UNCHANGED <<graph, applied, rules>>
    /\ pc' = "done"
    /\ UNCHANGED <<text, rule, useable_rules>>
    /\ UNCHANGED <<supplied, aliases, _type_buckets, registered>>

Next == MakeStartingGraph \/ GetUseableRules \/ LoopStep

Spec == Init /\ [][Next]_vars

----------------------------------------------------------------------------
(* _get_useable_rules on any host graph: a one-rule generator and a host   *)
(* graph that is a compiled product with its type info                     *)

InitUseable ==
    /\ text = NoText
    /\ rule = NoRule
    /\ \E lhs \in CompiledGraphs : rules = <<[lhs |-> lhs, rhs |-> <<_process_product(DefaultProduct)>>]>>
    /\ graph \in CompiledGraphs
    /\ useable_rules = <<>>
    /\ applied = 0
    /\ pc = "scan"
    /\ error = "none"
    /\ supplied = [i \in DOMAIN rules |-> Object("Rule", rules[i])]
    /\ aliases = {}
    /\ _type_buckets = NoBuckets
    /\ registered = {}

NextUseable == GetUseableRules

SpecUseable == InitUseable /\ [][NextUseable]_vars

----------------------------------------------------------------------------
(* Generator.__init__ on any list, then generate() *)

SuppliedItems == {Object("Rule", r) : r \in GrammarRules} \cup {Object("str", NoRule)}

InitConstruct ==
    /\ text = NoText
    /\ rule = NoRule
    /\ supplied \in UNION {[1..k -> SuppliedItems] : k \in 0..MaxRules}
    /\ rules = <<>>
    /\ graph = Unbound
    /\ useable_rules = <<>>
    /\ applied = 0
    /\ pc = "new"
    /\ error = "none"
    /\ aliases = {}
    /\ _type_buckets = NoBuckets
    /\ registered = {}

GeneratorInit ==
    /\ pc = "new"
    /\ IF AnyNotRule(supplied)
       THEN /\ error' = "ValueError"
            /\ pc' = "done"
            /\ UNCHANGED <<rules, _type_buckets>>
       ELSE /\ rules' = [i \in DOMAIN supplied |-> supplied[i].rule]
            /\ _type_buckets' = NoBuckets
            /\ pc' = "ready"
            /\ UNCHANGED error
    /\ UNCHANGED <<text, rule, graph, useable_rules, applied, supplied, aliases, registered>>

NextConstruct == GeneratorInit \/ Next

SpecConstruct == InitConstruct /\ [][NextConstruct]_vars

----------------------------------------------------------------------------
(* _add_to_type_buckets and _remove_from_type_buckets on a new Generator *)

\* a Node: an object with its typ
BucketNodes == [id : 1..MaxBucketNodes, typ : TypeNames]

InitBuckets ==
    /\ text = NoText
    /\ rule = NoRule
    /\ supplied = <<>>
    /\ rules = <<>>
    /\ graph = Unbound
    /\ useable_rules = <<>>
    /\ applied = 0
    /\ pc = "ready"
    /\ error = "none"
    /\ aliases = {}
    /\ _type_buckets = NoBuckets
    /\ registered = {}

AddToTypeBuckets ==
    /\ pc = "ready"
    /\ \E node \in BucketNodes :
          /\ _type_buckets' = _add_to_type_buckets(_type_buckets, node)
          /\ registered' = registered \cup {node}
    /\ UNCHANGED <<text, rule, rules, graph, useable_rules, applied, pc, error, supplied, aliases>>

RemoveFromTypeBuckets ==
    /\ pc = "ready"
    /\ \E node \in BucketNodes :
          /\ _type_buckets' = _remove_from_type_buckets(_type_buckets, node)
          /\ registered' = registered \ {node}
    /\ UNCHANGED <<text, rule, rules, graph, useable_rules, applied, pc, error, supplied, aliases>>

NextBuckets == AddToTypeBuckets \/ RemoveFromTypeBuckets

SpecBuckets == InitBuckets /\ [][NextBuckets]_vars

----------------------------------------------------------------------------
(* What the claims speak of *)

Range(s) == {s[i] : i \in DOMAIN s}

\* a type-compatible embedding of lhs into host: injective, type preserving,
\* every lhs edge on a host edge; the host may hold more nodes and edges
IsEmbedding(f, lhs, host) ==
    /\ \A n \in NodeNames(lhs) : NodeType(host, f[n]) = NodeType(lhs, n)
    /\ \A e \in lhs.edges : {f[n] : n \in e} \in host.edges

HasEmbedding(lhs, host) ==
    \E f \in Injections(NodeNames(lhs), NodeNames(host)) : IsEmbedding(f, lhs, host)

TypeInfoExact(g) ==
    /\ g.types = {g.nodes[i].type : i \in DOMAIN g.nodes}
    /\ \A t \in TypeNames : DictGet(g.type_counts, t) = Cardinality(NodesOfType(g, t))

\* the name an id of the rule text denotes: its type, then its label if any
IdName(ident) == IF Len(ident) = 1 THEN ident[1] ELSE ident[1] \o ident[2]

\* the positions <<path, id>> of a product
Positions(product) ==
    UNION {{<<i, j>> : j \in DOMAIN product[i]} : i \in DOMAIN product}

ProductNames(product) ==
    {IdName(product[ij[1]][ij[2]]) : ij \in Positions(product)}

ProductPairs(product) ==
    {{IdName(product[ij[1]][ij[2]]), IdName(product[ij[1]][ij[2] + 1])} :
        ij \in {q \in Positions(product) : q[2] + 1 \in DOMAIN product[q[1]]}}

CompiledAs(product, g) ==
    /\ NodeNames(g) = ProductNames(product)
    /\ Len(g.nodes) = Cardinality(ProductNames(product))
    /\ g.edges = ProductPairs(product)

IsSimple(g) == \A e \in g.edges : Cardinality(e) = 2 /\ e \subseteq NodeNames(g)

Exited == pc = "done"

NoRuleUseable == _get_useable_rules(rules, graph).useable_rules = <<>>

----------------------------------------------------------------------------
(* Claims *)

\* C1: after a scan, a rule is in the returned list if and only if its LHS
\* has a type-compatible embedding into the host graph (more host edges
\* allowed, also between the mapped nodes).
C1_UseableIffEmbedding ==
    pc = "while" =>
        \A i \in DOMAIN rules :
            (i \in Range(useable_rules)) <=> HasEmbedding(rules[i].lhs, graph)

\* C2: on a host graph whose type info is exact, a rule whose LHS has a
\* type-compatible embedding passes _has_required_types and
\* _has_required_type_counts.
C2_PrefilterNoFalseNegative ==
    (pc \in {"scan", "while"} /\ TypeInfoExact(graph)) =>
        \A i \in DOMAIN rules :
            HasEmbedding(rules[i].lhs, graph) =>
                /\ _has_required_types(rules[i], graph.types)
                /\ _has_required_type_counts(rules[i], graph.type_counts).result

C2_Witness ==
    /\ pc = "while"
    /\ TypeInfoExact(graph)
    /\ HasEmbedding(rules[1].lhs, graph)
    /\ Cardinality(NodesOfType(rules[1].lhs, "A")) = 2
    /\ Len(graph.nodes) = 3
    /\ useable_rules = <<>>

\* C3: wherever generate() computes the useable rules, and after the type
\* info update of _apply_rule, type_counts[t] is the number of nodes of type
\* t of the host graph for every t, and types is the set of the types that
\* have a node.
C3_TypeInfoExactAtScan ==
    (pc = "scan" \/ applied # 0) => TypeInfoExact(graph)

C3_Witness ==
    /\ pc = "scan"
    /\ Cardinality(NodesOfType(graph, "A")) = 2
    /\ DictGet(graph.type_counts, "A") = 2

\* C4: with the one rule "S ==> A->B;", generate() exits without error on a
\* graph of exactly two nodes, one of type A and one of type B, joined by
\* the graph's only edge.
C4_SingleRewriteThenFixpoint ==
    (Exited /\ rules = <<RuleInit(TextSAB)>>) =>
        /\ error = "none"
        /\ Len(graph.nodes) = 2
        /\ Cardinality(NodesOfType(graph, "A")) = 1
        /\ Cardinality(NodesOfType(graph, "B")) = 1
        /\ graph.edges = {NodeNames(graph)}

\* C5: with zero rules, generate() exits without error and without having
\* applied a rule.
C5_EmptyGrammarReturnsSeed ==
    (Exited /\ rules = <<>>) => (error = "none" /\ applied = 0)

\* C6: with the one rule "A ==> A->A;" and a step bound n, generate() exits
\* without error after exactly n rewrites, each of which adds one A node.
C6_StepBoundHalts ==
    (Exited /\ rules = <<RuleInit(TextAAA)>>) =>
        /\ error = "none"
        /\ \E n \in 1..MaxSteps : Cardinality(NodesOfType(graph, "A")) = n + 1

\* C7: when generate() exits with no rule useable, it exits without error.
C7_FixpointHaltsNormally ==
    (Exited /\ NoRuleUseable) => error = "none"

\* C8: every graph compiled from a rule text is simple: each edge joins two
\* distinct nodes of the graph; the product "A->A" is two joined A nodes.
C8_CompiledGraphsSimple ==
    pc = "compiled" =>
        /\ IsSimple(rule.lhs)
        /\ \A j \in DOMAIN rule.rhs :
               /\ IsSimple(rule.rhs[j])
               /\ text.rhs[j] = << << <<"A">>, <<"A">> >> >> =>
                      (Len(rule.rhs[j].nodes) = 2 /\ Cardinality(rule.rhs[j].edges) = 1)

\* C9: a compiled graph's nodes are the distinct names of the product's
\* paths, each once, and its edges the unordered pairs of consecutive names
\* of each path; a single-id path gives its node and no edge.
C9_ProductIsUnionOfPaths ==
    /\ pc \in {"lhs", "compiled"} => CompiledAs(text.lhs, rule.lhs)
    /\ pc = "compiled" =>
           /\ Len(rule.rhs) = Len(text.rhs)
           /\ \A j \in DOMAIN text.rhs : CompiledAs(text.rhs[j], rule.rhs[j])

C9_Witness ==
    /\ pc = "compiled"
    /\ Len(text.lhs) = 2
    /\ Len(text.lhs[1]) = 2
    /\ Len(text.lhs[2]) = 1
    /\ IdName(text.lhs[2][1]) = IdName(text.lhs[1][2])
    /\ Len(rule.lhs.nodes) = 2
    /\ Cardinality(rule.lhs.edges) = 1

\* C10: required_type_counts[t] is the number of distinct nodes of type t of
\* the LHS graph, and required_types the set of the types counted at least
\* once.
C10_RequiredCountsAreNodeCounts ==
    pc \in {"lhs", "compiled"} =>
        /\ \A t \in TypeNames :
               DictGet(required_type_counts(rule), t) = Cardinality(NodesOfType(rule.lhs, t))
        /\ required_types(rule) = {t \in TypeNames : DictGet(required_type_counts(rule), t) >= 1}
        /\ DictKeys(required_type_counts(rule)) = required_types(rule)

C10_Witness ==
    /\ pc = "compiled"
    /\ text.lhs = << << <<"A">>, <<"A", "1">>, <<"A">> >> >>
    /\ DictGet(required_type_counts(rule), "A") = 2
    /\ required_types(rule) = {"A"}

\* the node type the default seed carries
SentinelType == "S"

C12_RulesReadOnly ==
    [][/\ rules' = rules
       /\ \A i \in DOMAIN rules :
              /\ required_types(rules'[i]) = required_types(rules[i])
              /\ required_type_counts(rules'[i]) = required_type_counts(rules[i])
       /\ aliases' = {}]_vars

C12_Witness ==
    /\ pc = "done"
    /\ applied = 2
    /\ graph = rules[1].lhs
    /\ rules[1] = RuleInit(TextAAA)
    /\ rules[2] = RuleInit(TextAlt)

\* the host after a rewrite of the match f of r with the product rhs: the
\* nodes matched by names of the LHS alone are gone with every edge on them,
\* the nodes matched by names of both sides are still there with their type
\* and their edges to the other survivors, and no edge hangs
Rewritten(before, after, r, rhs, f) ==
    LET deleted == {f[n] : n \in NodeNames(r.lhs) \ NodeNames(rhs)}
        kept    == NodeNames(before) \ deleted
    IN  /\ \A e \in after.edges : e \subseteq NodeNames(after)
        /\ deleted \cap NodeNames(after) = {}
        /\ \A e \in after.edges : e \cap deleted = {}
        /\ \A n \in kept : n \in NodeNames(after) /\ NodeType(after, n) = NodeType(before, n)
        /\ \A e \in before.edges :
               (e \subseteq kept /\ ~(e \subseteq {f[n] : n \in NodeNames(r.lhs)}))
                   => e \in after.edges

\* C13 as stated: the step that applies a rule rewrites the host graph at some
\* match of the rule with one of its products: LHS-only nodes are deleted with
\* their incident edges, surviving nodes keep identity and other edges, and
\* every edge endpoint of the result is a node of the result.
C13_RewriteLeavesNoDanglingEdge ==
    [][(applied = 0 /\ applied' # 0) =>
          \E j \in DOMAIN rules[applied'].rhs :
              \E f \in Injections(NodeNames(rules[applied'].lhs), NodeNames(graph)) :
                  /\ IsEmbedding(f, rules[applied'].lhs, graph)
                  /\ Rewritten(graph, graph', rules[applied'], rules[applied'].rhs[j], f)]_vars

\* C14: once the constructor has run on a list, either some element of the
\* list is not a Rule, the constructor has raised ValueError and no Generator
\* was built (no rule list was stored, no call of it can start), or every
\* element is a Rule and the rule list is the supplied list, element by
\* element in the supplied order.
C14_ConstructionIsAtomic ==
    pc # "new" =>
        IF \E i \in DOMAIN supplied : supplied[i].cls # "Rule"
        THEN error = "ValueError" /\ pc = "done" /\ rules = <<>> /\ graph = Unbound
        ELSE /\ error # "ValueError"
             /\ Len(rules) = Len(supplied)
             /\ \A i \in DOMAIN supplied : rules[i] = supplied[i].rule

C14_Witness ==
    /\ pc = "done"
    /\ error = "ValueError"
    /\ Len(supplied) = 2
    /\ supplied[1].cls = "Rule"
    /\ supplied[2].cls = "str"

\* C15 as stated: two runs of generate() on the same grammar, seed graph and
\* supplied random seed make the same choice at every step. The runs of the
\* code agree up to the choice of line 108, which draws from the module-wide
\* random state and from no argument: they make the same choice only if the
\* draw has one outcome, that is if all the rules it may pick are one rule.
C15_SameInputsSameChoices ==
    pc = "while" =>
        \A j, k \in DOMAIN useable_rules : useable_rules[j] = useable_rules[k]

\* C16 as stated: in an iteration of the loop of generate() the rule handed
\* to _apply_rule is in the useable set of the current host graph, the useable
\* set is computed again on the host graph after the apply and the loop goes
\* on from it, and the loop is left exactly when the useable set is empty.
C16_LoopScansAppliesRescans ==
    [][pc = "while" =>
          /\ applied' # applied =>
                 /\ applied' \in Range(_get_useable_rules(rules, graph).useable_rules)
                 /\ useable_rules' = _get_useable_rules(rules', graph').useable_rules
          /\ pc' # "while" <=> useable_rules = <<>>]_vars

\* C17: after any sequence of _add_to_type_buckets and
\* _remove_from_type_buckets calls, the bucket of every type t holds exactly
\* the nodes of type t added and not removed since, no bucket holds a node of
\* another type, and removing a node that is not registered leaves the
\* contents of every bucket as they are.
C17_BucketsTrackRegisteredNodes ==
    /\ \A t \in TypeNames : BucketGet(_type_buckets, t) = {n \in registered : n.typ = t}
    /\ \A t \in DOMAIN _type_buckets : \A n \in _type_buckets[t] : n.typ = t
    /\ \A n \in BucketNodes \ registered :
           \A t \in TypeNames :
               BucketGet(_remove_from_type_buckets(_type_buckets, n), t)
                   = BucketGet(_type_buckets, t)

C17_Witness ==
    /\ Cardinality(BucketGet(_type_buckets, "A")) = 2
    /\ "B" \in DOMAIN _type_buckets
    /\ _type_buckets["B"] = {}
    /\ "S" \notin DOMAIN _type_buckets
    /\ Cardinality(registered) = 2

\* C18: a call of _get_useable_rules on a host graph with exact type info
\* leaves the host's nodes, edges, types set and type_counts mapping, its set
\* of keys included, as they were, and the list it returns holds positions of
\* the rule list in increasing order, so each position at most once.
C18_ScanIsPureAndOrdered ==
    [][(pc = "scan" /\ TypeInfoExact(graph)) =>
          /\ graph'.nodes = graph.nodes
          /\ graph'.edges = graph.edges
          /\ graph'.types = graph.types
          /\ graph'.type_counts = graph.type_counts
          /\ DictKeys(graph'.type_counts) = DictKeys(graph.type_counts)
          /\ Range(useable_rules') \subseteq DOMAIN rules
          /\ \A j, k \in DOMAIN useable_rules' :
                 j < k => useable_rules'[j] < useable_rules'[k]]_vars

C18_Witness ==
    /\ pc = "while"
    /\ Len(rules) = 2
    /\ useable_rules = <<1, 2>>
    /\ TypeInfoExact(graph)
    /\ rules[2].lhs # rules[1].lhs

\* C19: with a non-empty rule list, the first rule is useable on the host
\* graph _make_starting_graph builds and heads the list the first scan
\* returns, so a call of generate() that has ended has handed a rule to
\* _apply_rule: it never ends with no rewrite attempted.
C19_FirstRuleUseableOnStart ==
    rules # <<>> =>
        /\ pc = "scan" => 1 \in Range(_get_useable_rules(rules, graph).useable_rules)
        /\ pc = "while" => (useable_rules # <<>> /\ useable_rules[1] = 1)
        /\ Exited => applied \in Range(useable_rules)

C19_Witness ==
    /\ Exited
    /\ Len(rules) = 2
    /\ rules[1] = RuleInit(TextLoop)
    /\ graph.edges = {{"A"}}
    /\ useable_rules = <<1>>
    /\ applied = 1

=============================================================================
